---- MODULE Spec2Model ----
(***************************************************************************)
(* A model of the moray-sandbox Worker (lib/run.js) and of the Sandbox it  *)
(* owns (lib/sandbox.js): the startup pipeline, the per-request            *)
(* provisioning waterfall with its createdb retry loop, the message        *)
(* handler, and the shutdown coordinator stop().                           *)
(*                                                                         *)
(* The Worker is one single-threaded event loop: every action below is one *)
(* callback run to completion.  The environment (child processes, the      *)
(* moray server, the pg connection, the Supervisor, signals and timers)    *)
(* chooses which callback runs next and with which result.  The bag `out` *)
(* records the calls of process.send.                                      *)
(***************************************************************************)
EXTENDS Integers, Sequences, FiniteSets, Bags

\* ------------------------------------------------------------------ bounds

\* Number of createdb messages the Supervisor may send.
MaxReqs == 2
\* Number of messages of an unknown type the Supervisor may send.
MaxUnknown == 1
\* Number of SIGTERM signals sent to the Worker from outside.
MaxSigterm == 1

\* ------------------------------------------------------- program constants

\* process.argv[2]: the request id of the spawn request.
ORIGINAL_REQ == 0
\* The retry limit of _createDB ("if (attempt < 5)").
MaxAttempts == 5

BIND_IP == "127.0.0.1"
baseDir == "tmpdir"
unixDir == <<baseDir, "unix">>

ReqIds == 1..MaxReqs
\* The req_id of a message that has no req_id field.
NoReq == ORIGINAL_REQ - 1

\* ---------------------------------------------------------------- messages

NoErr == [kind |-> "none", attempt |-> 0]
Err(kind) == [kind |-> kind, attempt |-> 0]
\* The error of the k-th createdb attempt of a request.
CreatedbErr(k) == [kind |-> "createdb", attempt |-> k]
\* new VError(err, 'Failed to start Moray server')
MorayErr == Err("moray")

NoCfg == [host |-> "none"]
\* config.client of mkMorayConfig (the port is a random number, not modelled).
ClientCfg == [host |-> BIND_IP]

Msg(type, req_id, err, config) ==
    [type |-> type, req_id |-> req_id, err |-> err, config |-> config]

LogFileMsg == Msg("log-file", NoReq, NoErr, NoCfg)
UpMsg == Msg("up", ORIGINAL_REQ, NoErr, NoCfg)
StartupErrMsg(err) == Msg("error", ORIGINAL_REQ, err, NoCfg)
\* UnknownMsg answering under the spawn request's id.
UnknownMsg_origReq(req_id) == Msg("error", ORIGINAL_REQ, Err("unknown"), NoCfg)
UnknownMsg(req_id) == Msg("error", req_id, Err("unknown"), NoCfg)
\* ErrorMsg with the req_id of the startup error message.
ErrorMsg_origReq(req_id, err) == Msg("error", ORIGINAL_REQ, err, NoCfg)
ErrorMsg(req_id, err) == Msg("error", req_id, err, NoCfg)
ClientInfoMsg(req_id, config) == Msg("client-info", req_id, NoErr, config)

\* ------------------------------------------------------------------- state

VARIABLES
    wpc,         \* position of the Worker's main script / startup pipeline
    sandbox,     \* TRUE once "sandbox = new MoraySandbox(...)" has run
    handler,     \* TRUE once process.on('message', ...) is installed
    connected,   \* the IPC channel to the Supervisor is open
    out,         \* the messages passed to process.send: a bag, one copy per call
    crashed,     \* an exception escaped a callback: the Worker is dead
    stopping,    \* sandbox.stopping
    pg_child,    \* sandbox.pg_child: "null", "postgres" or "createdb"
    servers,     \* sandbox.servers: the servers' request ids, in push order
    pgProc,      \* the postgres process: "none", "running", "exited"
    cleanupLog,  \* the invocations of sandbox._cleanup: a bag of their callers
    stopPhase,   \* progress of the first stop(): idle/direct/closing/timer/done
    closeInputs, \* the servers forEachParallel called close() on
    closed,      \* the servers that have emitted 'close'
    signals,     \* number of process.kill(-process.pid, 'SIGTERM') calls
    selfSig,     \* the Worker's own copy of that SIGTERM is pending
    sigterms,    \* number of SIGTERM signals received from outside
    rpc,         \* per request: position of its createdb waterfall
    attempt,     \* per request: the attempt counter of its _createDB call
                 \* while that call is running, 0 otherwise
    url,         \* per request: config.server.standalone.url of its server
    unknown      \* the req_ids of the messages of unknown type received so far

workerVars == <<wpc, sandbox, handler, connected, crashed>>
sandboxVars == <<stopping, pg_child, servers>>
stopVars == <<stopPhase, closeInputs, closed, signals, selfSig>>
reqVars == <<rpc, attempt, url>>
vars == <<wpc, sandbox, handler, connected, out, crashed, stopping, pg_child,
          servers, pgProc, cleanupLog, stopPhase, closeInputs, closed,
          signals, selfSig, sigterms, rpc, attempt, url,
          unknown>>

ServerStates == {"listening", "pgwait", "query", "queried", "settled"}

Range(s) == {s[i] : i \in 1..Len(s)}

\* process.send(m)
send(m) == out' = out (+) SetToBag({m})

\* The number of times m was sent.
Sent(m) == CopiesIn(m, out)

\* The number of messages sent so far.
NumSent == BagCardinality(out)

\* The messages sent that answer the createdb request r: the messages the
\* callback of its waterfall sends.
Outcomes(r) ==
    {m \in BagToSet(out) :
        /\ m.req_id = r
        /\ \/ m.type = "client-info"
           \/ m.type = "error" /\ m.err.kind # "unknown"}

Init ==
    /\ wpc = "load"
    /\ sandbox = FALSE
    /\ handler = FALSE
    /\ connected = TRUE
    /\ out = EmptyBag
    /\ crashed = FALSE
    /\ stopping = FALSE
    /\ pg_child = "null"
    /\ servers = <<>>
    /\ pgProc = "none"
    /\ cleanupLog = EmptyBag
    /\ stopPhase = "idle"
    /\ closeInputs = {}
    /\ closed = {}
    /\ signals = 0
    /\ selfSig = FALSE
    /\ sigterms = 0
    /\ rpc = [r \in ReqIds |-> "unsent"]
    /\ attempt = [r \in ReqIds |-> 0]
    /\ url = [r \in ReqIds |-> <<>>]
    /\ unknown = <<>>

\* ---------------------------------------------------------------- shutdown

\* What a call of stop() may change.
stopFrame == <<stopping, stopPhase, closeInputs, closed, cleanupLog>>

\* sandbox._cleanup(), called by `who`.
cleanup(who) == cleanupLog' = cleanupLog (+) SetToBag({who})

\* stop() without its guard.
stopIsNoop_never == FALSE

\* The guard of stop(): "if (self.stopping) return;".
stopIsNoop == stopping

\* stop() closing the servers and signalling whatever pg_child is.
stopClosesServers_always == TRUE

\* The branch of stop(): "if (self.pg_child !== null)".
stopClosesServers == pg_child # "null"

\* MoraySandbox.prototype.stop.  Sets the variables of stopFrame.
stop ==
    IF stopIsNoop
    THEN UNCHANGED stopFrame
    ELSE /\ stopping' = TRUE
         /\ IF stopClosesServers
            THEN \* forEachParallel: server.on('close', cb); server.close()
                 /\ closeInputs' = Range(servers)
                 /\ stopPhase' = "closing"
                 /\ UNCHANGED <<closed, cleanupLog>>
            ELSE /\ cleanup("stop")
                 /\ stopPhase' = "direct"
                 /\ UNCHANGED <<closeInputs, closed>>

\* haltPG calling stop() without testing that the sandbox exists.
haltPG_unguarded == stop

\* haltPG: "if (sandbox) sandbox.stop()".  Sets the variables of stopFrame.
haltPG ==
    IF sandbox
    THEN stop
    ELSE UNCHANGED stopFrame

\* process.on('disconnect', haltPG)
Disconnect ==
    /\ ~crashed /\ wpc # "load"
    /\ connected
    /\ connected' = FALSE
    /\ haltPG
    /\ UNCHANGED <<wpc, sandbox, handler, out, crashed, pg_child, servers,
                   pgProc, signals, selfSig, sigterms, reqVars, unknown>>

\* process.on('SIGTERM', haltPG), the signal coming from outside the Worker.
Sigterm ==
    /\ ~crashed /\ wpc # "load"
    /\ sigterms < MaxSigterm
    /\ sigterms' = sigterms + 1
    /\ haltPG
    /\ UNCHANGED <<workerVars, out, pg_child, servers, pgProc, signals,
                   selfSig, reqVars, unknown>>

\* process.on('SIGTERM', haltPG), the signal being the one killPostgres sent
\* to the Worker's own process group.
SelfSigterm ==
    /\ ~crashed
    /\ selfSig
    /\ selfSig' = FALSE
    /\ haltPG
    /\ UNCHANGED <<workerVars, out, pg_child, servers, pgProc, signals,
                   sigterms, reqVars, unknown>>

\* killPostgres: signal the process group, arm the grace timer.
killPostgres ==
    /\ signals' = signals + 1
    /\ selfSig' = TRUE
    /\ stopPhase' = "timer"

\* forEachParallel going on after the first 'close'.
allClosed_any(cl) == closeInputs \cap cl # {}

\* Every input of forEachParallel has called back.
allClosed(cl) == closeInputs \subseteq cl

\* A server emits 'close': the cb of forEachParallel; the last one runs
\* killPostgres.
ServerClosed(r) ==
    /\ ~crashed
    /\ stopPhase = "closing"
    /\ r \in closeInputs
    /\ r \notin closed
    /\ closed' = closed \cup {r}
    /\ IF allClosed(closed')
       THEN killPostgres
       ELSE UNCHANGED <<signals, selfSig, stopPhase>>
    /\ UNCHANGED <<workerVars, out, sandboxVars, pgProc, cleanupLog,
                   closeInputs, sigterms, reqVars, unknown>>

\* forEachParallel over no inputs calls killPostgres on the next tick.
NoServersToClose ==
    /\ ~crashed
    /\ stopPhase = "closing"
    /\ closeInputs = {}
    /\ killPostgres
    /\ UNCHANGED <<workerVars, out, sandboxVars, pgProc, cleanupLog,
                   closeInputs, closed, sigterms, reqVars,
                   unknown>>

\* setTimeout(self._cleanup, 5000) fires.
GraceTimer ==
    /\ ~crashed
    /\ stopPhase = "timer"
    /\ stopPhase' = "done"
    /\ cleanup("timer")
    /\ UNCHANGED <<workerVars, out, sandboxVars, pgProc, closeInputs,
                   closed, signals, selfSig, sigterms, reqVars,
                   unknown>>

\* The exit callback of postgres reporting the exit to the Supervisor as a
\* startup failure.
PostgresExit_reports ==
    /\ ~crashed
    /\ pgProc = "running"
    /\ pgProc' = "exited"
    /\ send(StartupErrMsg(Err("postgres")))
    /\ cleanup("exit")
    /\ UNCHANGED <<workerVars, sandboxVars, stopVars, sigterms, reqVars,
                   unknown>>

\* The exit callback of postgres dropping the handle of the dead process.
PostgresExit_clears ==
    /\ ~crashed
    /\ pgProc = "running"
    /\ pgProc' = "exited"
    /\ pg_child' = "null"
    /\ cleanup("exit")
    /\ UNCHANGED <<workerVars, out, stopping, servers, stopVars, sigterms,
                   reqVars, unknown>>

\* The postgres process exits (by itself or because it was signalled): the
\* callback of forkExecWait in _startPG.
PostgresExit ==
    /\ ~crashed
    /\ pgProc = "running"
    /\ pgProc' = "exited"
    /\ cleanup("exit")
    /\ UNCHANGED <<workerVars, out, sandboxVars, stopVars, sigterms,
                   reqVars, unknown>>

\* ----------------------------------------------------------------- startup

\* The body of run.js up to the call of mod_tmp.dir: the handlers for
\* 'disconnect' and SIGTERM are installed and the log file is announced.
SendLogFile ==
    /\ ~crashed
    /\ wpc = "load"
    /\ wpc' = "tmpdir"
    /\ send(LogFileMsg)
    /\ UNCHANGED <<sandbox, handler, connected, crashed, sandboxVars, pgProc,
                   cleanupLog, stopVars, sigterms, reqVars, unknown>>

\* The callback of mod_tmp.dir announcing the log file itself, the script
\* having announced it already.
TmpDirDone_announces(ok) ==
    /\ ~crashed
    /\ wpc = "tmpdir"
    /\ IF ok
       THEN /\ sandbox' = TRUE
            /\ wpc' = "initdb"
            /\ send(LogFileMsg)
       ELSE /\ out' = out (+) SetToBag({LogFileMsg, StartupErrMsg(Err("tmp"))})
            /\ wpc' = "tmpfailed"
            /\ UNCHANGED sandbox
    /\ UNCHANGED <<handler, connected, crashed, sandboxVars, pgProc,
                   cleanupLog, stopVars, sigterms, reqVars, unknown>>

\* The callback of mod_tmp.dir: on an error report it and return; otherwise
\* construct the sandbox and start the pipeline, whose first function is
\* _initDB (it forks initdb).
TmpDirDone(ok) ==
    /\ ~crashed
    /\ wpc = "tmpdir"
    /\ IF ok
       THEN /\ sandbox' = TRUE
            /\ wpc' = "initdb"
            /\ UNCHANGED out
       ELSE /\ send(StartupErrMsg(Err("tmp")))
            /\ wpc' = "tmpfailed"
            /\ UNCHANGED sandbox
    /\ UNCHANGED <<handler, connected, crashed, sandboxVars, pgProc,
                   cleanupLog, stopVars, sigterms, reqVars, unknown>>

\* The callback of the startup pipeline falling through to the success
\* branch after reporting the error.
pipelineFailed_goesOn(err) ==
    /\ send(StartupErrMsg(err))
    /\ stop
    /\ wpc' = "startpg"

\* The callback of the startup pipeline without its call of sandbox.stop().
pipelineFailed_noStop(err) ==
    /\ send(StartupErrMsg(err))
    /\ UNCHANGED stopFrame
    /\ wpc' = "failed"

\* The callback of the startup pipeline with an error: report it under the
\* spawn request's id, then sandbox.stop().
pipelineFailed(err) ==
    /\ send(StartupErrMsg(err))
    /\ stop
    /\ wpc' = "failed"

\* The next position of _initDB after the sub-step at `pos` succeeded.
initDBNext(pos) ==
    CASE pos = "initdb" -> "appendcfg"
      [] pos = "appendcfg" -> "mkdir"
      [] pos = "mkdir" -> "startpg"

\* One sub-step of _initDB completes: initdb exits, appendFile or mkdir
\* calls back.  An error ends the pipeline; success of the last sub-step
\* lets the pipeline go on to _startPG.
InitDBStep(ok) ==
    /\ ~crashed
    /\ wpc \in {"initdb", "appendcfg", "mkdir"}
    /\ IF ok
       THEN /\ wpc' = initDBNext(wpc)
            /\ UNCHANGED <<out, stopFrame>>
       ELSE pipelineFailed(Err(wpc))
    /\ UNCHANGED <<sandbox, handler, connected, crashed, pg_child, servers,
                   pgProc, signals, selfSig, sigterms, reqVars, unknown>>

\* _startPG forks postgres, stores the handle and calls back at once; the
\* pipeline's callback then installs the message handler and sends 'up'.
StartPG ==
    /\ ~crashed
    /\ wpc = "startpg"
    /\ pg_child' = "postgres"
    /\ pgProc' = "running"
    /\ handler' = TRUE
    /\ send(UpMsg)
    /\ wpc' = "up"
    /\ UNCHANGED <<sandbox, connected, crashed, stopping, servers, cleanupLog,
                   stopVars, sigterms, reqVars, unknown>>

\* ------------------------------------------------------------ provisioning

\* The connection string _createDB hands on: self.unixDir + ' ' + req_id.
connstrOf(req_id) == <<unixDir, req_id>>

\* The waterfall of createdb(req_id) has run its callback.
Replied(req_id) == Outcomes(req_id) # {}

\* A step of a waterfall calls back after the waterfall has finished: vasync
\* throws, nothing in run.js catches the exception, the Worker dies.
crash ==
    /\ crashed' = TRUE
    /\ UNCHANGED <<wpc, sandbox, handler, connected, out, sandboxVars,
                   pgProc, cleanupLog, stopVars, sigterms, reqVars,
                   unknown>>

\* The Supervisor's messages carry fresh request ids, handed out in order.
nextReq(r) == rpc[r] = "unsent" /\ \A q \in ReqIds : q < r => rpc[q] # "unsent"

\* A {type: 'createdb'} message arrives.  Without a 'message' listener it is
\* discarded; with one, createdb(req_id) starts the waterfall, whose first
\* function calls _createDB: attempt = 1 and the first createdb is forked.
RecvCreatedb(r) ==
    /\ ~crashed /\ wpc # "load"
    /\ connected
    /\ nextReq(r)
    /\ IF handler
       THEN /\ rpc' = [rpc EXCEPT ![r] = "createdb"]
            /\ attempt' = [attempt EXCEPT ![r] = 1]
            /\ pg_child' = "createdb"
       ELSE /\ rpc' = [rpc EXCEPT ![r] = "dropped"]
            /\ UNCHANGED <<attempt, pg_child>>
    /\ UNCHANGED <<workerVars, out, stopping, servers, pgProc, cleanupLog,
                   stopVars, sigterms, url, unknown>>

\* A message of any other type arrives: the default branch of the switch.
RecvUnknown(r) ==
    /\ ~crashed /\ wpc # "load"
    /\ connected
    /\ Len(unknown) < MaxUnknown
    /\ unknown' = Append(unknown, r)
    /\ IF handler
       THEN send(UnknownMsg(r))
       ELSE UNCHANGED out
    /\ UNCHANGED <<workerVars, sandboxVars, pgProc, cleanupLog, stopVars,
                   sigterms, reqVars>>

\* The callback of createdb's waterfall treating an error of a request like
\* the callback of the startup pipeline does: report it, then sandbox.stop().
requestFailed_stops(req_id, err) ==
    /\ send(ErrorMsg(req_id, err))
    /\ stop

\* The callback of createdb's waterfall with an error: report it under the
\* request's id, and nothing else.  Sets out and the variables of stopFrame.
requestFailed(req_id, err) ==
    /\ send(ErrorMsg(req_id, err))
    /\ UNCHANGED stopFrame

\* The retry loop testing attempt <= 5.
mayRetry_inclusive(n) == n <= MaxAttempts

\* The test of the retry loop: "if (attempt < 5)".
mayRetry(n) == n < MaxAttempts

\* _createDB keeping the error of the first attempt.
finalErr_first(n) == CreatedbErr(1)

\* The error _createDB calls back with after the last attempt: the err of
\* the forkExecWait callback that is running, i.e. of attempt n.
finalErr(n) == CreatedbErr(n)

\* The waterfall going on to _startMoray after _createDB failed for good
\* and its error was reported.
CreateDBExit_goesOn(r, ok) ==
    /\ ~crashed
    /\ rpc[r] = "createdb"
    /\ IF ok \/ ~mayRetry(attempt[r])
       THEN /\ rpc' = [rpc EXCEPT ![r] = "listening"]
            /\ attempt' = [attempt EXCEPT ![r] = 0]
            /\ url' = [url EXCEPT ![r] = connstrOf(r)]
            /\ servers' = Append(servers, r)
            /\ IF ok
               THEN UNCHANGED <<out, stopFrame>>
               ELSE requestFailed(r, finalErr(attempt[r]))
            /\ UNCHANGED pg_child
       ELSE /\ attempt' = [attempt EXCEPT ![r] = @ + 1]
            /\ pg_child' = "createdb"
            /\ UNCHANGED <<rpc, out, stopFrame, url, servers>>
    /\ UNCHANGED <<workerVars, pgProc, signals, selfSig, sigterms, unknown>>

\* A createdb child process exits: the callback of forkExecWait in retry().
\* On an error below the limit, count and fork again; otherwise call back.
\* Success takes the waterfall to _startMoray, which creates the server,
\* calls listen() and pushes it onto servers.
CreateDBExit(r, ok) ==
    /\ ~crashed
    /\ rpc[r] = "createdb"
    /\ IF ok
       THEN /\ rpc' = [rpc EXCEPT ![r] = "listening"]
            /\ attempt' = [attempt EXCEPT ![r] = 0]
            /\ url' = [url EXCEPT ![r] = connstrOf(r)]
            /\ servers' = Append(servers, r)
            /\ UNCHANGED <<pg_child, out, stopFrame>>
       ELSE /\ IF mayRetry(attempt[r])
               THEN /\ attempt' = [attempt EXCEPT ![r] = @ + 1]
                    /\ pg_child' = "createdb"
                    /\ UNCHANGED <<rpc, out, stopFrame>>
               ELSE /\ rpc' = [rpc EXCEPT ![r] = "failedA"]
                    /\ attempt' = [attempt EXCEPT ![r] = 0]
                    /\ requestFailed(r, finalErr(attempt[r]))
                    /\ UNCHANGED pg_child
            /\ UNCHANGED <<url, servers>>
    /\ UNCHANGED <<workerVars, pgProc, signals, selfSig, sigterms, unknown>>

\* The server emits 'error': onError calls back with a VError.
ServerError(r) ==
    /\ ~crashed
    /\ rpc[r] \in ServerStates
    /\ IF Replied(r)
       THEN crash
       ELSE /\ requestFailed(r, MorayErr)
            /\ UNCHANGED <<workerVars, pg_child, servers, pgProc, signals,
                           selfSig, sigterms, reqVars, unknown>>

\* The server emits 'ready': setupDB asks db_conn for a connection.
ServerReady(r) ==
    /\ ~crashed
    /\ rpc[r] = "listening"
    /\ rpc' = [rpc EXCEPT ![r] = "pgwait"]
    /\ UNCHANGED <<workerVars, out, sandboxVars, pgProc, cleanupLog,
                   stopVars, sigterms, attempt, url, unknown>>

\* The callback of server.db_conn.pg: with cErr call back, otherwise run
\* the CREATE TABLE query.
PgConn(r, ok) ==
    /\ ~crashed
    /\ rpc[r] = "pgwait"
    /\ IF ~ok /\ Replied(r)
       THEN crash
       ELSE /\ IF ok
               THEN /\ rpc' = [rpc EXCEPT ![r] = "query"]
                    /\ UNCHANGED <<out, stopFrame>>
               ELSE /\ rpc' = [rpc EXCEPT ![r] = "settled"]
                    /\ requestFailed(r, Err("pgconn"))
            /\ UNCHANGED <<workerVars, pg_child, servers, pgProc, signals,
                           selfSig, sigterms, attempt, url, unknown>>

\* What the listener of the query's event `ev` calls back with.
queryReply(r, ev) ==
    IF ev = "end" THEN ClientInfoMsg(r, ClientCfg)
    ELSE ErrorMsg(r, Err("query"))

\* The query emits 'error' or 'end': the listener releases the connection
\* and calls back.  Both listeners are registered with once(), each on its
\* own event, so the other event may still arrive afterwards.
QueryEvent(r, ev) ==
    /\ ~crashed
    /\ rpc[r] \in {"query", "queried"}
    /\ IF Replied(r)
       THEN crash
       ELSE /\ rpc' = [rpc EXCEPT ![r] = "queried"]
            /\ send(queryReply(r, ev))
            /\ UNCHANGED <<workerVars, sandboxVars, pgProc, cleanupLog,
                           stopVars, sigterms, attempt, url, unknown>>

\* ----------------------------------------------------------- specification

Next ==
    \/ SendLogFile
    \/ \E ok \in BOOLEAN : TmpDirDone(ok)
    \/ \E ok \in BOOLEAN : InitDBStep(ok)
    \/ StartPG
    \/ PostgresExit
    \/ Disconnect
    \/ Sigterm
    \/ SelfSigterm
    \/ \E r \in ReqIds : ServerClosed(r)
    \/ NoServersToClose
    \/ GraceTimer
    \/ \E r \in ReqIds : RecvCreatedb(r)
    \/ \E r \in ReqIds : RecvUnknown(r)
    \/ \E r \in ReqIds, ok \in BOOLEAN : CreateDBExit(r, ok)
    \/ \E r \in ReqIds : ServerError(r)
    \/ \E r \in ReqIds : ServerReady(r)
    \/ \E r \in ReqIds, ok \in BOOLEAN : PgConn(r, ok)
    \/ \E r \in ReqIds, ev \in {"end", "error"} : QueryEvent(r, ev)

Spec == Init /\ [][Next]_vars

\* The environment completes what the Worker waits for: the callbacks of
\* the startup steps run, every createdb child exits, every listening server
\* emits 'ready', db_conn.pg calls back and the query emits an event.
Fairness ==
    /\ WF_vars(SendLogFile)
    /\ WF_vars(\E ok \in BOOLEAN : TmpDirDone(ok))
    /\ WF_vars(\E ok \in BOOLEAN : InitDBStep(ok))
    /\ WF_vars(StartPG)
    /\ \A r \in ReqIds :
        /\ WF_vars(\E ok \in BOOLEAN : CreateDBExit(r, ok))
        /\ WF_vars(ServerReady(r))
        /\ WF_vars(\E ok \in BOOLEAN : PgConn(r, ok))
        /\ WF_vars(\E ev \in {"end", "error"} :
                      rpc[r] = "query" /\ QueryEvent(r, ev))

FairSpec == Spec /\ Fairness

\* The startup of the server of request r failed: the server has emitted
\* 'error', which onError has reported to the waterfall of r, and it has
\* not emitted 'ready'.
startFailed(r) == rpc[r] = "listening" /\ Sent(ErrorMsg(r, MorayErr)) > 0

\* The environment completes what stop() waits for: forEachParallel over no
\* inputs calls back, the grace timer fires, and every server whose startup
\* did not fail emits 'close' once close() was called on it.  Nothing is
\* assumed of a server whose startup failed.
ShutdownFairness ==
    /\ WF_vars(NoServersToClose)
    /\ WF_vars(GraceTimer)
    /\ \A r \in ReqIds : WF_vars(~startFailed(r) /\ ServerClosed(r))

ShutdownSpec == Spec /\ ShutdownFairness

\* ------------------------------------------------------------------ claims

\* The number of messages sent that answer the createdb request r.
OutcomeCount(r) == BagCardinality([m \in Outcomes(r) |-> out[m]])

\* The Worker has taken up the createdb message of request r.
Accepted(r) == rpc[r] \notin {"unsent", "dropped"}

\* C1: every createdb message the Worker takes up after its startup
\* succeeded is answered by exactly one message carrying its req_id, a
\* client-info or an error: never two, and eventually one unless the Worker
\* crashes, whatever the order of the server's and the query's events.
C1_ExactlyOneOutcome ==
    /\ [](\A r \in ReqIds : OutcomeCount(r) <= 1)
    /\ [](\A r \in ReqIds : Accepted(r) =>
            /\ \A m \in Outcomes(r) :
                  \/ m.type = "error"
                  \/ m.type = "client-info" /\ m.config = [host |-> "127.0.0.1"]
            /\ Sent([type |-> "up", req_id |-> ORIGINAL_REQ,
                     err |-> NoErr, config |-> NoCfg]) = 1)
    /\ \A r \in ReqIds : Accepted(r) ~> (crashed \/ OutcomeCount(r) = 1)

\* C1 witness: both requests are answered, one with client-info after its
\* server had also emitted 'ready', one with an error.
C1_Witness ==
    /\ ~crashed
    /\ \E r, q \in ReqIds :
        /\ r # q
        /\ rpc[r] = "queried"
        /\ Sent([type |-> "client-info", req_id |-> r, err |-> NoErr,
                 config |-> [host |-> "127.0.0.1"]]) = 1
        /\ rpc[q] \in ServerStates
        /\ \E m \in Outcomes(q) : m.type = "error"

\* C2: sandbox._cleanup is invoked at most once in the lifetime of the
\* Sandbox.
C2_CleanupAtMostOnce == BagCardinality(cleanupLog) <= 1

\* A step in which sandbox.stop() is called: by haltPG on a disconnect, on a
\* SIGTERM from outside or from the Worker's own process group, or by the
\* callback of the failed startup pipeline.
StopCalled ==
    \/ sandbox /\ connected /\ ~connected'
    \/ sandbox /\ sigterms' # sigterms
    \/ selfSig /\ ~selfSig'
    \/ wpc # "failed" /\ wpc' = "failed"

\* C3: the first call of stop() sets stopping, which is never reset, and a
\* call of stop() while stopping is set closes no server, signals nothing,
\* arms no timer and invokes no cleanup.
C3_StopIdempotent ==
    [][/\ stopping => stopping'
       /\ StopCalled => stopping'
       /\ (StopCalled /\ stopping) =>
             UNCHANGED <<stopPhase, closeInputs, closed, signals, cleanupLog,
                         servers, pg_child>>]_vars

\* C3 witness: after a disconnect and a SIGTERM from outside, killPostgres
\* has signalled the process group and the Worker's own copy of that signal
\* has been delivered, so haltPG has called stop() again.
C3_Witness ==
    /\ wpc = "up" /\ stopping
    /\ ~connected /\ sigterms = 1
    /\ signals = 1 /\ ~selfSig
    /\ stopPhase = "done"

\* C4: when stop() runs with a cluster process handle, close() is called on
\* every server in servers; SIGTERM goes to the process group only once each
\* of them has emitted 'close'; and the cleanup scheduled by stop() runs
\* only after that signal.
C4_ShutdownOrder ==
    /\ [][(~stopping /\ stopping' /\ pg_child # "null") =>
             (closeInputs' = Range(servers) /\ signals' = 0)]_vars
    /\ [](signals > 0 =>
             /\ stopping
             /\ closeInputs \subseteq closed
             /\ stopPhase \in {"timer", "done"})
    /\ [](CopiesIn("timer", cleanupLog) > 0 =>
             /\ signals = 1
             /\ closeInputs \subseteq closed
             /\ stopPhase = "done")
    /\ [](closed \subseteq closeInputs)
    /\ [][signals' # signals =>
             (signals' = signals + 1 /\ CopiesIn("timer", cleanupLog') = 0)]_vars

\* C4 witness: two servers were closed, the signal was sent and the timer's
\* cleanup has run.
C4_Witness ==
    /\ Cardinality(closeInputs) = 2
    /\ closed = closeInputs
    /\ signals = 1
    /\ CopiesIn("timer", cleanupLog) = 1

\* C5: once stopping is set, a createdb message starts no tenant-database
\* creation attempt.
C5_NoProvisionAfterStopping ==
    [][\A r \in ReqIds :
          (stopping /\ rpc[r] = "unsent") => rpc'[r] # "createdb"]_vars

\* The messages sent that carry the spawn request's id.
StartupMsgs == {m \in BagToSet(out) : m.req_id = ORIGINAL_REQ}

\* The number of messages sent that carry the spawn request's id.
StartupCount == BagCardinality([m \in StartupMsgs |-> out[m]])

\* C6: the Worker sends exactly one message with the spawn request's id,
\* 'up' or 'error'; 'up' only once both startup steps have succeeded and the
\* message handler is installed; and _startPG never runs after _initDB
\* failed.
C6_OneStartupMessage ==
    /\ [](StartupCount <= 1)
    /\ [](\A m \in StartupMsgs : m.type \in {"up", "error"})
    /\ <>(StartupCount = 1)
    /\ [](\A m \in StartupMsgs : m.type = "up" =>
             handler /\ wpc = "up" /\ pgProc # "none" /\ pg_child # "null")
    /\ [](wpc = "failed" => pgProc = "none" /\ pg_child = "null")
    /\ [][wpc' = "up" => wpc \in {"startpg", "up"}]_vars
    /\ [][wpc' = "startpg" => wpc \in {"mkdir", "startpg"}]_vars

\* C6 witness: 'up' has been sent and a request taken up.
C6_Witness ==
    /\ \E m \in StartupMsgs : m.type = "up"
    /\ \E r \in ReqIds : Accepted(r)

\* C7: after the startup pipeline failed, exactly one error message with the
\* spawn request's id has been sent and no other message but log-file;
\* stop() has run; the startup steps are not run again; 'up' is never sent
\* and no createdb or unknown message is ever answered.
C7_StartupFailureFatal ==
    /\ [](wpc = "failed" =>
             /\ StartupCount = 1
             /\ \A m \in StartupMsgs : m.type = "error"
             /\ \A m \in BagToSet(out) :
                   m.req_id = ORIGINAL_REQ \/ m.type = "log-file"
             /\ NumSent = 2
             /\ stopping
             /\ CopiesIn("stop", cleanupLog) = 1
             /\ ~handler
             /\ \A r \in ReqIds : ~Accepted(r))
    /\ [][wpc = "failed" => wpc' = "failed"]_vars
    /\ [][wpc' = "failed" /\ wpc # "failed" =>
             /\ wpc \in {"initdb", "appendcfg", "mkdir"}
             /\ stopping'
             /\ out' = out (+) SetToBag({[type |-> "error",
                                          req_id |-> ORIGINAL_REQ,
                                          err |-> [kind |-> wpc, attempt |-> 0],
                                          config |-> NoCfg]})]_vars

\* C7 witness: the pipeline failed, and afterwards a createdb message and an
\* unknown message arrived and went unanswered.
C7_Witness ==
    /\ wpc = "failed"
    /\ \E r \in ReqIds : rpc[r] = "dropped"
    /\ Len(unknown) = 1
    /\ ~connected

\* C8: _createDB makes at most 5 attempts, one at a time; an attempt that
\* succeeds ends the step with the connection string <<unixDir, req_id>>
\* and starts the server; the step fails only when the 5th attempt failed,
\* and every failure before the 5th starts the next attempt.
C8_RetryLimit ==
    /\ [](\A r \in ReqIds :
             /\ attempt[r] \in 0..5
             /\ (attempt[r] > 0) <=> (rpc[r] = "createdb")
             /\ rpc[r] \in ServerStates =>
                   url[r] = <<<<"tmpdir", "unix">>, r>>
             /\ rpc[r] \notin ServerStates => url[r] = <<>>)
    /\ [][\A r \in ReqIds :
             /\ attempt'[r] # attempt[r] =>
                   \/ attempt[r] = 0 /\ attempt'[r] = 1 /\ rpc[r] = "unsent"
                   \/ attempt[r] < 5 /\ attempt'[r] = attempt[r] + 1
                   \/ attempt'[r] = 0 /\ rpc'[r] \in {"listening", "failedA"}
             /\ (rpc'[r] = "failedA" /\ rpc[r] # "failedA") =>
                   (rpc[r] = "createdb" /\ attempt[r] = 5)
             /\ (rpc'[r] = "listening" /\ rpc[r] # "listening") =>
                   (rpc[r] = "createdb" /\ servers' = Append(servers, r))
          ]_vars

\* C8 witness: one request failed all its attempts, and another, whose
\* attempt succeeded, has its server started with the connection string.
C8_Witness ==
    /\ \E r \in ReqIds : rpc[r] = "failedA"
    /\ \E r \in ReqIds :
          rpc[r] = "listening" /\ url[r] = <<<<"tmpdir", "unix">>, r>>

\* C9: an error of createdb reaches the Supervisor only as the error of the
\* 5th attempt, in the error message of its request.
C9_LastErrorSurfaced ==
    /\ \A m \in BagToSet(out) : m.err.kind = "createdb" =>
          /\ m.err.attempt = 5
          /\ m.type = "error"
          /\ m.req_id \in ReqIds
          /\ rpc[m.req_id] = "failedA"
    /\ \A r \in ReqIds : rpc[r] = "failedA" =>
          Sent([type |-> "error", req_id |-> r,
                err |-> [kind |-> "createdb", attempt |-> 5],
                config |-> NoCfg]) = 1

\* C9 witness: a request has failed all its attempts.
C9_Witness ==
    \E r \in ReqIds : rpc[r] = "failedA" /\ OutcomeCount(r) = 1

\* A step in which the installed message handler takes a message of unknown
\* type.
UnknownHandled == handler /\ unknown' # unknown

\* C10: the handler answers a message of unknown type with one error message
\* carrying that message's req_id and changes nothing else; it stays
\* installed, and a createdb message that arrives later is taken up.
C10_UnknownNonFatal ==
    /\ [][UnknownHandled =>
             /\ unknown' = Append(unknown, unknown'[Len(unknown')])
             /\ out' = out (+) SetToBag({[type |-> "error",
                          req_id |-> unknown'[Len(unknown')],
                          err |-> [kind |-> "unknown", attempt |-> 0],
                          config |-> NoCfg]})
             /\ UNCHANGED <<wpc, sandbox, handler, connected, crashed,
                            stopping, pg_child, servers, pgProc, cleanupLog,
                            stopPhase, closeInputs, closed, signals, selfSig,
                            sigterms, rpc, attempt, url>>]_vars
    /\ [][handler => handler']_vars
    /\ [][\A r \in ReqIds :
             (handler /\ rpc[r] = "unsent" /\ rpc'[r] # "unsent") =>
                 rpc'[r] = "createdb"]_vars

\* C10 witness: an unknown message was answered while no request had been
\* sent, and a request has since been taken up and answered.
C10_Witness ==
    /\ ~stopping /\ ~crashed
    /\ Len(unknown) = 1
    /\ \E r \in ReqIds : rpc[r] = "queried" /\ OutcomeCount(r) = 1
    /\ \E r \in ReqIds :
          Sent([type |-> "error", req_id |-> r,
                err |-> [kind |-> "unknown", attempt |-> 0],
                config |-> NoCfg]) = 1

\* A step in which the waterfall of request a calls back with an error: the
\* first outcome message of a is sent and it is an error message.
RequestFails(a) ==
    /\ Outcomes(a) = {}
    /\ \E m \in BagToSet(out') :
          m.req_id = a /\ m.type = "error" /\ m.err.kind # "unknown"

\* C11: requests do not affect each other.  The step in which a request
\* fails for good (its 5th createdb attempt failed, its server emitted
\* 'error', or the pg connection failed) calls no stop(), leaves stopping,
\* the shutdown state, the servers and the Worker's state as they are, and
\* touches no other request; no step of a request changes the position, the
\* attempt counter or the url of another one; and a request taken up while
\* another has failed is still answered, unless the Worker crashes.
C11_RequestsIndependent ==
    /\ [][\A a \in ReqIds : RequestFails(a) =>
             /\ UNCHANGED <<wpc, sandbox, handler, connected, crashed,
                            stopping, servers, pgProc, cleanupLog, stopPhase,
                            closeInputs, closed, signals, selfSig, sigterms>>
             /\ \A b \in ReqIds \ {a} :
                   /\ rpc'[b] = rpc[b]
                   /\ attempt'[b] = attempt[b]
                   /\ url'[b] = url[b]
                   /\ OutcomeCount(b)' = OutcomeCount(b)]_vars
    /\ [][\A a, b \in ReqIds :
             (a # b /\ rpc'[a] # rpc[a]) =>
                 /\ rpc'[b] = rpc[b]
                 /\ attempt'[b] = attempt[b]
                 /\ url'[b] = url[b]]_vars
    /\ \A a, b \in ReqIds :
          (a # b /\ rpc[a] = "failedA" /\ Accepted(b))
              ~> (crashed \/ OutcomeCount(b) = 1)

\* C11 witness: request 1 is still retrying createdb (its 5th attempt is
\* running) while request 2, which arrived later, has been answered with
\* client-info; nothing is stopping.
C11_Witness ==
    /\ ~crashed /\ ~stopping
    /\ rpc[1] = "createdb" /\ attempt[1] = 5
    /\ rpc[2] = "queried"
    /\ Sent(ClientInfoMsg(2, ClientCfg)) = 1

\* C12: the log-file message is sent exactly once, by the first step of the
\* Worker: before it nothing has been sent, no sandbox exists and no signal,
\* disconnect or message has been handled; every other message is sent
\* when it has been sent already.
C12_LogFileFirst ==
    /\ [](Sent([type |-> "log-file", req_id |-> NoReq, err |-> NoErr,
                config |-> NoCfg]) <= 1)
    /\ [](\A m \in BagToSet(out) : m.type = "log-file" =>
             m = [type |-> "log-file", req_id |-> NoReq, err |-> NoErr,
                  config |-> NoCfg])
    /\ [](wpc = "load" =>
             /\ out = EmptyBag
             /\ ~sandbox /\ ~handler /\ connected /\ ~stopping
             /\ pg_child = "null" /\ pgProc = "none"
             /\ sigterms = 0 /\ unknown = <<>>
             /\ \A r \in ReqIds : rpc[r] = "unsent")
    /\ [](wpc # "load" =>
             Sent([type |-> "log-file", req_id |-> NoReq, err |-> NoErr,
                   config |-> NoCfg]) = 1)
    /\ [][(out = EmptyBag /\ out' # out) =>
             /\ wpc = "load" /\ wpc' = "tmpdir"
             /\ out' = SetToBag({[type |-> "log-file", req_id |-> NoReq,
                                  err |-> NoErr, config |-> NoCfg]})]_vars
    /\ [][(out # EmptyBag /\ out' # out) =>
             \A m \in BagToSet(out') :
                 CopiesIn(m, out') > CopiesIn(m, out) => m.type # "log-file"]_vars

\* C12 witness: after log-file the Worker has sent 'up', the answer to a
\* message of unknown type, a client-info and a request's error message.
C12_Witness ==
    /\ Sent(LogFileMsg) = 1
    /\ Sent(UpMsg) = 1
    /\ \E r \in ReqIds : Sent(UnknownMsg(r)) = 1
    /\ \E r \in ReqIds : Sent(ClientInfoMsg(r, ClientCfg)) = 1
    /\ \E r \in ReqIds : \E m \in Outcomes(r) : m.type = "error"

\* C13: pg_child is null in every state in which _startPG has not run and
\* non-null in every state in which it has, and no step sets it back to
\* null: not a request, not the exit of postgres, not stop().
C13_HandleNullUntilStartPG ==
    /\ [](pgProc = "none" <=> pg_child = "null")
    /\ [](wpc \in {"load", "tmpdir", "tmpfailed", "initdb", "appendcfg",
                   "mkdir", "startpg", "failed"} => pg_child = "null")
    /\ [](wpc = "up" => pg_child # "null")
    /\ [][pg_child # "null" => pg_child' # "null"]_vars
    /\ [][(pg_child = "null" /\ pg_child' # "null") =>
             (wpc = "startpg" /\ wpc' = "up")]_vars

\* C13 witness: after _startPG, a request was taken up, postgres has exited
\* and the shutdown has run to its end; the handle is still set.
C13_Witness ==
    /\ pg_child # "null"
    /\ pgProc = "exited"
    /\ stopPhase = "done"
    /\ \E r \in ReqIds : Accepted(r)

\* C14: in the step in which the cleanup that stop() scheduled behind the
\* close of the servers is invoked, every server created so far (every
\* element of servers) has had close() called on it and has emitted 'close'.
C14_AllServersClosedAtCleanup ==
    [][CopiesIn("timer", cleanupLog') > CopiesIn("timer", cleanupLog) =>
          \A r \in Range(servers) : r \in closeInputs /\ r \in closed]_vars

\* C15: once stop() has been called on the sandbox, _cleanup is eventually
\* invoked, unless the Worker crashes; assuming the grace timer fires and
\* every server whose startup did not fail emits 'close'.
C15_ShutdownCompletes ==
    stopping ~> (crashed \/ BagCardinality(cleanupLog) > 0)

\* C16: whenever pg_child is not null it is the handle of the postgres
\* process that _startPG launched; taking up a request and running its
\* createdb attempts leaves it so.
C16_HandleIsPostgres == pg_child # "null" => pg_child = "postgres"

\* C17: within a request the steps run in order and stop at the first
\* failure.  A server is created and pushed onto servers only in the step in
\* which createdb of the same request succeeded, with that step's
\* connection string <<unixDir, req_id>>, and nothing is sent in that step;
\* until then the request has no server, no url and no outcome; after
\* _createDB failed for good the request never gets a server, its position
\* never changes again, and its one outcome is the error of createdb.
C17_StepsInOrder ==
    /\ [][\A r \in ReqIds :
             (r \notin Range(servers) /\ r \in Range(servers')) =>
                 /\ rpc[r] = "createdb" /\ attempt[r] \in 1..5
                 /\ rpc'[r] = "listening"
                 /\ url'[r] = <<<<"tmpdir", "unix">>, r>>
                 /\ servers' = Append(servers, r)
                 /\ out' = out]_vars
    /\ [](\A r \in ReqIds :
             /\ r \in Range(servers) <=> rpc[r] \in ServerStates
             /\ rpc[r] \in {"unsent", "dropped", "createdb"} =>
                   url[r] = <<>> /\ Outcomes(r) = {}
             /\ rpc[r] = "failedA" =>
                   /\ url[r] = <<>>
                   /\ Outcomes(r) = {[type |-> "error", req_id |-> r,
                                      err |-> [kind |-> "createdb",
                                               attempt |-> 5],
                                      config |-> NoCfg]}
                   /\ OutcomeCount(r) = 1)
    /\ [][\A r \in ReqIds :
             /\ rpc[r] = "failedA" => rpc'[r] = "failedA"
             /\ (rpc'[r] \in {"pgwait", "query", "queried", "settled"}) =>
                   rpc[r] \in ServerStates
             /\ rpc[r] \in ServerStates => rpc'[r] \in ServerStates]_vars
    /\ [](Len(servers) = Cardinality(Range(servers)))

\* C17 witness: request 1 failed all its createdb attempts and has no
\* server; request 2 has its server, which is the only one, and its
\* client-info.
C17_Witness ==
    /\ rpc[1] = "failedA"
    /\ servers = <<2>>
    /\ rpc[2] = "queried"
    /\ Sent(ClientInfoMsg(2, ClientCfg)) = 1

\* C18: a first call of stop() while pg_child is null invokes _cleanup in
\* that very step, once, calls close() on no server, sends no signal and
\* arms no timer; and none of these happens later either.
C18_DirectCleanup ==
    /\ [][(StopCalled /\ sandbox /\ ~stopping /\ pg_child = "null") =>
             /\ stopping'
             /\ stopPhase' = "direct"
             /\ cleanupLog' = cleanupLog (+) SetToBag({"stop"})
             /\ UNCHANGED <<closeInputs, closed, signals, selfSig, servers,
                            pg_child, pgProc>>]_vars
    /\ [](stopPhase = "direct" =>
             /\ stopping
             /\ closeInputs = {} /\ closed = {}
             /\ signals = 0 /\ ~selfSig
             /\ CopiesIn("stop", cleanupLog) = 1
             /\ CopiesIn("timer", cleanupLog) = 0)
    /\ [](stopPhase # "direct" => CopiesIn("stop", cleanupLog) = 0)
    /\ [][stopPhase = "direct" => stopPhase' = "direct"]_vars

\* C18 witness: stop() ran on a disconnect while the startup pipeline was
\* still in _initDB; the pipeline went on to start postgres, and a later
\* SIGTERM called stop() again.
C18_Witness ==
    /\ stopPhase = "direct"
    /\ ~connected
    /\ sigterms = 1
    /\ wpc = "up" /\ pg_child # "null"
    /\ CopiesIn("stop", cleanupLog) = 1

\* C19: _startPG cannot fail: the step that runs it always ends the pipeline
\* with success ('up' is sent, the handler installed).  So whenever an error
\* message with the spawn request's id has been sent, its error is one of
\* mod_tmp.dir or of the sub-steps of _initDB, pg_child is null, postgres
\* was never started, and no signal is ever sent to the process group: the
\* stop() that follows took the direct branch.  The exit of postgres sends
\* no message and does nothing but invoke _cleanup.
C19_OnlyInitDBFails ==
    /\ [][(wpc = "startpg" /\ wpc' # wpc) =>
             /\ wpc' = "up" /\ handler' /\ pg_child' = "postgres"
             /\ out' = out (+) SetToBag({[type |-> "up",
                                          req_id |-> ORIGINAL_REQ,
                                          err |-> NoErr, config |-> NoCfg]})
             /\ cleanupLog' = cleanupLog]_vars
    /\ [](\A m \in StartupMsgs : m.type = "error" =>
             /\ m.err.kind \in {"tmp", "initdb", "appendcfg", "mkdir"}
             /\ pg_child = "null" /\ pgProc = "none"
             /\ signals = 0 /\ ~selfSig
             /\ closeInputs = {}
             /\ CopiesIn("timer", cleanupLog) = 0
             /\ CopiesIn("exit", cleanupLog) = 0
             /\ m.err.kind = "tmp" =>
                   (~sandbox /\ ~stopping /\ stopPhase = "idle")
             /\ m.err.kind # "tmp" =>
                   (stopping /\ stopPhase = "direct"
                      /\ CopiesIn("stop", cleanupLog) = 1))
    /\ [][(pgProc = "running" /\ pgProc' = "exited") =>
             /\ out' = out
             /\ cleanupLog' = cleanupLog (+) SetToBag({"exit"})
             /\ UNCHANGED <<wpc, sandbox, handler, connected, crashed,
                            stopping, pg_child, servers, stopPhase,
                            closeInputs, closed, signals, selfSig, rpc>>]_vars
    /\ [](pgProc # "none" => \A m \in StartupMsgs : m.type = "up")

\* C19 witness: postgres was launched, 'up' was sent, and postgres has
\* exited with nothing stopping: its exit callback invoked _cleanup and the
\* Supervisor was told nothing.
C19_Witness ==
    /\ pgProc = "exited"
    /\ ~stopping
    /\ cleanupLog = SetToBag({"exit"})
    /\ Sent(UpMsg) = 1
    /\ NumSent = 2

\* C20: after mod_tmp.dir failed, the Worker has sent log-file and one error
\* message with the spawn request's id and nothing else, ever; no sandbox
\* exists, no startup step has run or will run, no handler is installed and
\* no request is taken up; and a disconnect or SIGTERM changes nothing but
\* the fact that it has happened: no stop(), no cleanup.
C20_TmpDirFailure ==
    /\ [](wpc = "tmpfailed" =>
             /\ ~sandbox /\ ~handler
             /\ out = SetToBag({[type |-> "log-file", req_id |-> NoReq,
                                 err |-> NoErr, config |-> NoCfg],
                                [type |-> "error", req_id |-> ORIGINAL_REQ,
                                 err |-> [kind |-> "tmp", attempt |-> 0],
                                 config |-> NoCfg]})
             /\ StartupCount = 1
             /\ ~stopping /\ stopPhase = "idle"
             /\ cleanupLog = EmptyBag
             /\ pg_child = "null" /\ pgProc = "none"
             /\ servers = <<>> /\ signals = 0
             /\ \A r \in ReqIds : ~Accepted(r))
    /\ [][wpc = "tmpfailed" => wpc' = "tmpfailed"]_vars
    /\ [][(wpc' = "tmpfailed" /\ wpc # "tmpfailed") => wpc = "tmpdir"]_vars
    /\ [][(wpc = "tmpfailed"
             /\ (connected # connected' \/ sigterms' # sigterms)) =>
             UNCHANGED <<wpc, sandbox, handler, out, crashed, stopping,
                         pg_child, servers, pgProc, cleanupLog, stopPhase,
                         closeInputs, closed, signals, selfSig, rpc,
                         attempt, url, unknown>>]_vars

\* C20 witness: mod_tmp.dir failed; a createdb message and a message of
\* unknown type found no handler; then the Supervisor disconnected and a
\* SIGTERM arrived.
C20_Witness ==
    /\ wpc = "tmpfailed"
    /\ ~connected
    /\ sigterms = 1
    /\ \E r \in ReqIds : rpc[r] = "dropped"
    /\ Len(unknown) = 1

====
